---- MODULE Spec2Model ----
(***************************************************************************)
(* Desk layout calculation (frontend/src/calculateDeskLayout.ts) and the   *)
(* generic reorderSubArray helper (frontend/src/helper/array.ts).          *)
(*                                                                         *)
(* A Person is a record [id, team, dog].  team = NoTeam models a person    *)
(* whose `team` field is null/undefined; team ids are the integers         *)
(* 1..NumTeams, compared numerically where the code calls localeCompare.   *)
(* Array.prototype.sort is modelled as V8 does it for arrays shorter than  *)
(* 64 elements (one CountAndMakeRun followed by BinaryInsertionSort), the  *)
(* engine the source names at calculateDeskLayout.ts:49-52.  Where the     *)
(* comparator is a consistent order this is the stable sorted order; where *)
(* it is not, the order is the one this algorithm leaves.                  *)
(***************************************************************************)
EXTENDS Integers, Sequences, FiniteSets, TLC

\* ---------------------------------------------------------------- bounds
MaxLen == 4
NumTeams == 2
MaxSlice == 6
LongRun == 4

\* ------------------------------------------------------------ data model
NoTeam == 0
Teams == 1..NumTeams
DogStatus == {"Avoid", "Like", "Have"}

DogStatusOrder == [Avoid |-> 1, Like |-> 2, Have |-> 3]

DOG_HATERS == 0
MIXED == 1
NO_TEAM == 2
DOG_LOVERS == 3

\* Number.MAX_SAFE_INTEGER (2^53 - 1) is only ever compared with, and
\* subtracted from, the category ordinals 0..3; the model keeps the largest
\* integer the checker represents, which orders the same way.
MAX_SAFE_INTEGER == 2147483647

\* Keys of teamRankMap for a teamless person: the classifier stores `null`,
\* the re-sort looks up `person.team?.id`, which is `undefined`.
NullKey == 0
UndefinedKey == -1

Range(s) == {s[i] : i \in 1..Len(s)}

\* ------------------------------------------------ Array.prototype.sort
\* cmp is the comparator tabulated over the elements of the array:
\* cmp[a, b] is the number the callback returns for (a, b).

\* CountAndMakeRun: length of the initial run, and whether it is descending.
RECURSIVE RunLength(_, _, _, _, _)
RunLength(s, cmp, isDescending, idx, run) ==
    IF idx > Len(s) THEN run
    ELSE LET order == cmp[s[idx], s[idx - 1]]
         IN IF isDescending
            THEN IF order >= 0 THEN run
                 ELSE RunLength(s, cmp, isDescending, idx + 1, run + 1)
            ELSE IF order < 0 THEN run
                 ELSE RunLength(s, cmp, isDescending, idx + 1, run + 1)

ReverseRange(s, n) ==
    [i \in 1..Len(s) |-> IF i <= n THEN s[n + 1 - i] ELSE s[i]]

CountAndMakeRun(s, cmp) ==
    IF Len(s) = 1 THEN [arr |-> s, run |-> 1]
    ELSE LET isDescending == cmp[s[2], s[1]] < 0
             run == RunLength(s, cmp, isDescending, 3, 2)
         IN [arr |-> IF isDescending THEN ReverseRange(s, run) ELSE s,
             run |-> run]

\* The binary search of BinaryInsertionSort: the insertion point of pivot
\* in s[left .. right-1].
RECURSIVE BinarySearch(_, _, _, _, _)
BinarySearch(s, cmp, pivot, left, right) ==
    IF left < right
    THEN LET mid == left + ((right - left) \div 2)
         IN IF cmp[pivot, s[mid]] < 0
            THEN BinarySearch(s, cmp, pivot, left, mid)
            ELSE BinarySearch(s, cmp, pivot, mid + 1, right)
    ELSE left

RECURSIVE BinaryInsertionSort(_, _, _)
BinaryInsertionSort(s, cmp, start) ==
    IF start > Len(s) THEN s
    ELSE LET pivot == s[start]
             left == BinarySearch(s, cmp, pivot, 1, start)
             moved == SubSeq(s, 1, left - 1) \o <<pivot>>
                      \o SubSeq(s, left, start - 1)
                      \o SubSeq(s, start + 1, Len(s))
         IN BinaryInsertionSort(moved, cmp, start + 1)

ArraySort(s, cmp) ==
    IF Len(s) < 2 THEN s
    ELSE LET r == CountAndMakeRun(s, cmp)
         IN BinaryInsertionSort(r.arr, cmp, r.run + 1)

\* ------------------------------------------------------- comparators
localeCompare(a, b) == IF a < b THEN -1 ELSE IF a > b THEN 1 ELSE 0

sortByTeamAndDogStatus(personA, personB) ==
    IF personA.team # NoTeam /\ personB.team # NoTeam
       /\ personA.team # personB.team
    THEN localeCompare(personA.team, personB.team)
    ELSE IF DogStatusOrder[personA.dog] < DogStatusOrder[personB.dog] THEN -1
    ELSE IF DogStatusOrder[personA.dog] > DogStatusOrder[personB.dog] THEN 1
    ELSE 0

SortedByTeamAndDogStatus(arr) ==
    ArraySort(arr, [a \in Range(arr), b \in Range(arr) |-> sortByTeamAndDogStatus(a, b)])

\* ------------------------------------------------------- team classifier
\* person.team?.id ?? null  and  person.team?.id
TeamIdOrNull(person) == IF person.team = NoTeam THEN NullKey ELSE person.team
TeamIdOrUndefined(person) == IF person.team = NoTeam THEN UndefinedKey ELSE person.team

ZeroCount == [Avoid |-> 0, Like |-> 0, Have |-> 0]

categoriseTeam(teamDogStatusCount) ==
    IF teamDogStatusCount.Avoid = 0 THEN DOG_LOVERS
    ELSE IF teamDogStatusCount.Have = 0 THEN DOG_HATERS
    ELSE IF teamDogStatusCount.Avoid > 0 /\ teamDogStatusCount.Have > 0 THEN MIXED
    ELSE NO_TEAM

\* State of the forEach of sortTeamsByCategory before the first person.
ClassifierStart ==
    [currTeam |-> [teamId |-> NullKey, category |-> NO_TEAM],
     count |-> ZeroCount,
     teamSummaries |-> <<>>]

\* One iteration of the forEach of sortTeamsByCategory.
ClassifierStep(st, person) ==
    LET cur1 == IF st.currTeam.teamId = NullKey
                THEN [teamId |-> TeamIdOrNull(person), category |-> NO_TEAM]
                ELSE st.currTeam
        changed == cur1.teamId # TeamIdOrNull(person)
        closed == [cur1 EXCEPT !.category = categoriseTeam(st.count)]
        cur2 == IF changed
                THEN [teamId |-> TeamIdOrNull(person), category |-> NO_TEAM]
                ELSE cur1
        count2 == IF changed THEN ZeroCount ELSE st.count
    IN [currTeam |-> cur2,
        count |-> [count2 EXCEPT ![person.dog] = @ + 1],
        teamSummaries |-> IF changed THEN Append(st.teamSummaries, closed)
                          ELSE st.teamSummaries]

RECURSIVE ClassifierScan(_, _, _)
ClassifierScan(arr, i, st) ==
    IF i > Len(arr) THEN st
    ELSE ClassifierScan(arr, i + 1, ClassifierStep(st, arr[i]))

CategoryCompare(teamA, teamB) == teamA.category - teamB.category

sortTeamsByCategory(arr) ==
    LET st == ClassifierScan(arr, 1, ClassifierStart)
        last == [st.currTeam EXCEPT !.category = categoriseTeam(st.count)]
        all == Append(st.teamSummaries, last)
    IN ArraySort(all, [a \in Range(all), b \in Range(all) |-> CategoryCompare(a, b)])

\* ------------------------------------------------ category rank, re-sort
MapSet(m, k, v) == [x \in (DOMAIN m) \cup {k} |-> IF x = k THEN v ELSE m[x]]

RECURSIVE BuildTeamRankMap(_, _, _)
BuildTeamRankMap(summaries, i, m) ==
    IF i > Len(summaries) THEN m
    ELSE BuildTeamRankMap(summaries, i + 1,
                          MapSet(m, summaries[i].teamId, summaries[i].category))

EmptyMap == [x \in {} |-> 0]

Rank(m, person) ==
    IF TeamIdOrUndefined(person) \in DOMAIN m
    THEN m[TeamIdOrUndefined(person)]
    ELSE MAX_SAFE_INTEGER

\* RankCompare without the team id tie-break of lines 80-85.
RankCompareNoTieBreak(m, personA, personB) ==
    Rank(m, personA) - Rank(m, personB)

RankCompare(m, personA, personB) ==
    LET rankA == Rank(m, personA)
        rankB == Rank(m, personB)
    IN IF rankA # rankB THEN rankA - rankB
       ELSE IF personA.team # NoTeam /\ personB.team # NoTeam
               /\ localeCompare(personA.team, personB.team) # 0
            THEN localeCompare(personA.team, personB.team)
       ELSE 0

SortedByRank(arr, m) ==
    ArraySort(arr, [a \in Range(arr), b \in Range(arr) |-> RankCompare(m, a, b)])

\* ------------------------------------------------------ interleaving pass
\* FindSplitPoint testing index > 1 instead of index > 0.
RECURSIVE FindSplitPointFromTwo(_, _)
FindSplitPointFromTwo(subArray, index) ==
    IF index >= Len(subArray) THEN -1
    ELSE IF index > 1 /\ subArray[index + 1].dog # subArray[1].dog THEN index
    ELSE FindSplitPointFromTwo(subArray, index + 1)

\* findIndex of insertPeopleWithDogLogic, as a 0-based index, -1 if none.
RECURSIVE FindSplitPoint(_, _)
FindSplitPoint(subArray, index) ==
    IF index >= Len(subArray) THEN -1
    ELSE IF index > 0 /\ subArray[index + 1].dog # subArray[1].dog THEN index
    ELSE FindSplitPoint(subArray, index + 1)

\* Alternate without the loop that exhausts groupB (lines 234-236).
RECURSIVE AlternateDropsRemainder(_, _, _, _, _)
AlternateDropsRemainder(groupA, groupB, indexA, indexB, resultArray) ==
    IF indexA < Len(groupA) /\ indexB < Len(groupB)
    THEN AlternateDropsRemainder(groupA, groupB, indexA + 1, indexB + 1,
                   resultArray \o <<groupA[indexA + 1], groupB[indexB + 1]>>)
    ELSE resultArray \o SubSeq(groupA, indexA + 1, Len(groupA))

\* The three while loops of insertPeopleWithDogLogic; indexA and indexB are
\* the 0-based cursors.
RECURSIVE Alternate(_, _, _, _, _)
Alternate(groupA, groupB, indexA, indexB, resultArray) ==
    IF indexA < Len(groupA) /\ indexB < Len(groupB)
    THEN Alternate(groupA, groupB, indexA + 1, indexB + 1,
                   resultArray \o <<groupA[indexA + 1], groupB[indexB + 1]>>)
    ELSE resultArray \o SubSeq(groupA, indexA + 1, Len(groupA))
                     \o SubSeq(groupB, indexB + 1, Len(groupB))

\* insertPeopleWithDogLogic leaving slices of up to 4 people alone.
insertPeopleWithDogLogicUpToFour(subArray) ==
    IF Len(subArray) <= 4 THEN subArray
    ELSE LET splitPoint == FindSplitPoint(subArray, 0)
         IN IF splitPoint # -1
            THEN Alternate(SubSeq(subArray, 1, splitPoint),
                           SubSeq(subArray, splitPoint + 1, Len(subArray)),
                           0, 0, <<>>)
            ELSE subArray

insertPeopleWithDogLogic(subArray) ==
    IF Len(subArray) <= 3 THEN subArray
    ELSE LET splitPoint == FindSplitPoint(subArray, 0)
         IN IF splitPoint # -1
            THEN Alternate(SubSeq(subArray, 1, splitPoint),
                           SubSeq(subArray, splitPoint + 1, Len(subArray)),
                           0, 0, <<>>)
            ELSE subArray

\* The callback a caller hands to reorderSubArray, by name; the only one in
\* the program is insertPeopleWithDogLogic.
CallReOrderLogic(reOrderLogic, subArray) ==
    IF reOrderLogic = "insertPeopleWithDogLogic"
    THEN insertPeopleWithDogLogic(subArray)
    ELSE subArray

\* start and end are the 0-based inclusive indices of the code.
reorderSubArray(array, start, end, reOrderLogic) ==
    IF start < 0 \/ end >= Len(array) \/ start > end THEN array
    ELSE SubSeq(array, 1, start)
         \o CallReOrderLogic(reOrderLogic, SubSeq(array, start + 1, end + 1))
         \o SubSeq(array, end + 2, Len(array))

\* State of the forEach of calculateDeskLayout before the first person.
\* calls records the arguments of every reorderSubArray call made so far.
ScanStart(arr) ==
    [currTeam |-> UndefinedKey,
     startPointer |-> 0,
     startSearchFlag |-> FALSE,
     updatedPeople |-> arr,
     calls |-> <<>>]

Call(st, end) == [array |-> st.updatedPeople, start |-> st.startPointer, end |-> end]

\* ScanStep closing a run at index instead of index - 1.
ScanStepEndAtIndex(st, person, index) ==
    LET team == TeamIdOrUndefined(person)
        cur1 == IF st.currTeam = UndefinedKey THEN team ELSE st.currTeam
        flush == st.startSearchFlag
                 /\ (team # cur1 \/ (team = cur1 /\ person.dog = "Avoid"))
        updated == IF flush
                   THEN reorderSubArray(st.updatedPeople, st.startPointer,
                                        index, "insertPeopleWithDogLogic")
                   ELSE st.updatedPeople
        calls == IF flush THEN Append(st.calls, Call(st, index)) ELSE st.calls
        flag1 == st.startSearchFlag /\ ~flush
        begin == ~flag1 /\ person.dog # "Avoid"
    IN [currTeam |-> IF begin THEN team ELSE cur1,
        startPointer |-> IF begin THEN index ELSE st.startPointer,
        startSearchFlag |-> flag1 \/ begin,
        updatedPeople |-> updated,
        calls |-> calls]

\* One iteration of the forEach of calculateDeskLayout; index is 0-based.
ScanStep(st, person, index) ==
    LET team == TeamIdOrUndefined(person)
        cur1 == IF st.currTeam = UndefinedKey THEN team ELSE st.currTeam
        flush == st.startSearchFlag
                 /\ (team # cur1 \/ (team = cur1 /\ person.dog = "Avoid"))
        updated == IF flush
                   THEN reorderSubArray(st.updatedPeople, st.startPointer,
                                        index - 1, "insertPeopleWithDogLogic")
                   ELSE st.updatedPeople
        calls == IF flush THEN Append(st.calls, Call(st, index - 1)) ELSE st.calls
        flag1 == st.startSearchFlag /\ ~flush
        begin == ~flag1 /\ person.dog # "Avoid"
    IN [currTeam |-> IF begin THEN team ELSE cur1,
        startPointer |-> IF begin THEN index ELSE st.startPointer,
        startSearchFlag |-> flag1 \/ begin,
        updatedPeople |-> updated,
        calls |-> calls]

RECURSIVE Scan(_, _, _)
Scan(arr, i, st) ==
    IF i > Len(arr) THEN st
    ELSE Scan(arr, i + 1, ScanStep(st, arr[i], i - 1))

\* The forEach and the trailing flush of calculateDeskLayout.
Interleaved(arr) ==
    LET st == Scan(arr, 1, ScanStart(arr))
    IN IF st.startSearchFlag
       THEN [st EXCEPT
               !.updatedPeople = reorderSubArray(st.updatedPeople, st.startPointer,
                                                 Len(st.updatedPeople) - 1,
                                                 "insertPeopleWithDogLogic"),
               !.calls = Append(st.calls, Call(st, Len(st.updatedPeople) - 1))]
       ELSE st

calculateDeskLayout(arr) ==
    LET grouped == SortedByTeamAndDogStatus(arr)
        summaries == sortTeamsByCategory(grouped)
        m == BuildTeamRankMap(summaries, 1, EmptyMap)
    IN Interleaved(SortedByRank(grouped, m)).updatedPeople

\* ---------------------------------------------------------------- state
\* people        the argument of calculateDeskLayout
\* sortedPeople  the local array sorted in place (lines 53-54, 68-88)
\* teamSummaries, teamRankMap, updatedPeople   the locals of the same name
\* calls         the reorderSubArray calls of the interleaving pass
\* again         calculateDeskLayout applied to the returned layout
\* pc            the position in calculateDeskLayout
VARIABLES people, sortedPeople, teamSummaries, teamRankMap, updatedPeople,
          calls, again, pc

vars == <<people, sortedPeople, teamSummaries, teamRankMap, updatedPeople,
          calls, again, pc>>

PersonKinds == (Teams \cup {NoTeam}) \X DogStatus

MakePeople(kinds) ==
    [i \in 1..Len(kinds) |-> [id |-> i, team |-> kinds[i][1], dog |-> kinds[i][2]]]

\* people is one of the lists of at most MaxLen people
IsInput(arr) ==
    \E n \in 0..MaxLen : \E kinds \in [1..n -> PersonKinds] : arr = MakePeople(kinds)

\* people is LongRun Like/Have people of one team (or all teamless), long
\* enough to be interleaved, with at most one more person before and after
IsLongRunInput(arr) ==
    \E t \in Teams \cup {NoTeam} : \E d \in [1..LongRun -> {"Like", "Have"}] :
    \E n \in 0..1 : \E pre \in [1..n -> PersonKinds] :
    \E m \in 0..1 : \E post \in [1..m -> PersonKinds] :
        arr = MakePeople(pre \o [i \in 1..LongRun |-> <<t, d[i]>>] \o post)

\* The two layouts of the doc comment (lines 32-43): one team; Alice, Bob,
\* Charlie, David, Eve, and the same team after Bob left.
DocExampleFive ==
    MakePeople(<<<<1, "Like">>, <<1, "Like">>, <<1, "Avoid">>, <<1, "Have">>, <<1, "Have">>>>)
DocExampleFour ==
    MakePeople(<<<<1, "Like">>, <<1, "Avoid">>, <<1, "Have">>, <<1, "Have">>>>)

Init ==
    /\ \/ IsInput(people)
       \/ IsLongRunInput(people)
       \/ people \in {DocExampleFive, DocExampleFour}
    /\ sortedPeople = <<>>
    /\ teamSummaries = <<>>
    /\ teamRankMap = EmptyMap
    /\ updatedPeople = <<>>
    /\ calls = <<>>
    /\ again = <<>>
    /\ pc = "start"

\* lines 53-54
SortPrimary ==
    /\ pc = "start"
    /\ sortedPeople' = SortedByTeamAndDogStatus(people)
    /\ pc' = "grouped"
    /\ UNCHANGED <<people, teamSummaries, teamRankMap, updatedPeople, calls, again>>

\* line 58
Classify ==
    /\ pc = "grouped"
    /\ teamSummaries' = sortTeamsByCategory(sortedPeople)
    /\ pc' = "classified"
    /\ UNCHANGED <<people, sortedPeople, teamRankMap, updatedPeople, calls, again>>

\* lines 61-88
Resort ==
    /\ pc = "classified"
    /\ teamRankMap' = BuildTeamRankMap(teamSummaries, 1, EmptyMap)
    /\ sortedPeople' = SortedByRank(sortedPeople, teamRankMap')
    /\ pc' = "resorted"
    /\ UNCHANGED <<people, teamSummaries, updatedPeople, calls, again>>

\* lines 92-121
Interleave ==
    /\ pc = "resorted"
    /\ LET st == Interleaved(sortedPeople)
       IN /\ updatedPeople' = st.updatedPeople
          /\ calls' = st.calls
    /\ pc' = "done"
    /\ UNCHANGED <<people, sortedPeople, teamSummaries, teamRankMap, again>>

\* The caller lays out the returned list once more.
LayoutAgain ==
    /\ pc = "done"
    /\ again' = calculateDeskLayout(updatedPeople)
    /\ pc' = "again"
    /\ UNCHANGED <<people, sortedPeople, teamSummaries, teamRankMap,
                   updatedPeople, calls>>

Next == SortPrimary \/ Classify \/ Resort \/ Interleave \/ LayoutAgain

Spec == Init /\ [][Next]_vars

\* ------------------------------------ insertPeopleWithDogLogic on its own
\* Every slice of up to MaxSlice people of one team, any dog statuses.
IsSlice(arr) ==
    \E n \in 0..MaxSlice : \E d \in [1..n -> DogStatus] :
        arr = MakePeople([i \in 1..n |-> <<1, d[i]>>])

InitSlice ==
    /\ IsSlice(people)
    /\ sortedPeople = <<>>
    /\ teamSummaries = <<>>
    /\ teamRankMap = EmptyMap
    /\ updatedPeople = <<>>
    /\ calls = <<>>
    /\ again = <<>>
    /\ pc = "slice"

InterleaveSlice ==
    /\ pc = "slice"
    /\ updatedPeople' = insertPeopleWithDogLogic(people)
    /\ pc' = "sliced"
    /\ UNCHANGED <<people, sortedPeople, teamSummaries, teamRankMap, calls, again>>

NextSlice == InterleaveSlice

SpecSlice == InitSlice /\ [][NextSlice]_vars


\* ============================================================== claims
Ids(s) == {s[i].id : i \in 1..Len(s)}
CountId(s, id) == Cardinality({i \in 1..Len(s) : s[i].id = id})
Abs(n) == IF n < 0 THEN -n ELSE n
Min(a, b) == IF a < b THEN a ELSE b

\* the people of team t in s, and the category the classification rule
\* gives for them
DogCount(s, t) ==
    [d \in DogStatus |-> Cardinality({i \in 1..Len(s) : s[i].team = t /\ s[i].dog = d})]
TeamCategoryOf(s, t) == categoriseTeam(DogCount(s, t))

\* C1: the returned layout is a permutation of the input: every person id
\* occurs in the output exactly as often as in the input.
C1_Permutation ==
    pc \in {"done", "again"} =>
        /\ Len(updatedPeople) = Len(people)
        /\ \A id \in Ids(people) \cup Ids(updatedPeople) :
               CountId(updatedPeople, id) = CountId(people, id)

\* an interleaved run (a reorderSubArray call on more than 3 people that
\* changed the array) in a layout of teamed and teamless people
C1_Witness ==
    /\ pc = "done"
    /\ \E i, j \in 1..Len(people) : people[i].team = NoTeam /\ people[j].team # NoTeam
    /\ \E c \in Range(calls) : c.end - c.start >= 3
    /\ updatedPeople # sortedPeople

\* C2: in the returned layout the people of one team are contiguous.
C2_TeamContiguity ==
    pc = "done" =>
        \A i, j, k \in 1..Len(updatedPeople) :
            (i < j /\ j < k /\ updatedPeople[i].team # NoTeam
             /\ updatedPeople[i].team = updatedPeople[k].team)
            => updatedPeople[j].team = updatedPeople[i].team

\* a team whose members are apart in the input, a teamless person and
\* another team's member between them
C2_Witness ==
    /\ pc = "done"
    /\ Len(people) = 4
    /\ people[1].team = 1 /\ people[2].team = NoTeam
    /\ people[3].team = 2 /\ people[4].team = 1

\* C3: the returned layout is ordered DogHaters teams, Mixed teams, the
\* teamless people, DogLovers teams, a team's category being the one of its
\* full membership.
BlockRank(s, person) ==
    IF person.team = NoTeam THEN NO_TEAM ELSE TeamCategoryOf(s, person.team)

C3_CategoryOrder ==
    pc = "done" =>
        \A i, j \in 1..Len(updatedPeople) :
            i < j => BlockRank(people, updatedPeople[i]) <= BlockRank(people, updatedPeople[j])

\* C4: inside a team's block of the returned layout every Avoid person
\* precedes every Like or Have person of that team.
C4_AvoidFirst ==
    pc = "done" =>
        \A i, j \in 1..Len(updatedPeople) :
            (i < j /\ updatedPeople[i].team # NoTeam
             /\ updatedPeople[i].team = updatedPeople[j].team
             /\ updatedPeople[j].dog = "Avoid")
            => updatedPeople[i].dog = "Avoid"

\* C5: a slice longer than 3 that splits into groupA (size a >= 1) and
\* groupB (size b >= 1) comes back alternating groupA[i], groupB[i] for
\* i < min(a, b), then the rest of the larger group in order.
\* the size of the leading block of people with the dog status of the first
SplitOf(slice) ==
    CHOOSE a \in 1..Len(slice) :
        /\ \A k \in 1..a : slice[k].dog = slice[1].dog
        /\ a = Len(slice) \/ slice[a + 1].dog # slice[1].dog
Splits(slice) == Len(slice) > 3 /\ SplitOf(slice) < Len(slice)

Alternation(slice) ==
    LET a == SplitOf(slice)
        b == Len(slice) - a
        m == Min(a, b)
    IN [k \in 1..Len(slice) |->
          IF k <= 2 * m
          THEN IF k % 2 = 1 THEN slice[(k + 1) \div 2] ELSE slice[a + (k \div 2)]
          ELSE IF a > b THEN slice[k - b] ELSE slice[k]]

\* people of a slice carry their position as id, so groupA is ids 1..a
InGroupA(slice, person) == person.id <= SplitOf(slice)

LongestRun(slice, result) ==
    LET same(i, j) == \A k \in i..j :
                          InGroupA(slice, result[k]) = InGroupA(slice, result[i])
        runs == {n \in 1..Len(result) :
                   \E i \in 1..(Len(result) - n + 1) : same(i, i + n - 1)}
    IN CHOOSE n \in runs : \A o \in runs : o <= n

\* C5 as stated: ..., and the longest run of consecutive elements of one
\* subgroup in the result has length exactly |a - b|.
C5_LongestRunAbsDiff ==
    (pc = "sliced" /\ Splits(people)) =>
        /\ updatedPeople = Alternation(people)
        /\ LongestRun(people, updatedPeople)
             = Abs(SplitOf(people) - (Len(people) - SplitOf(people)))

\* C5 amended: ..., and the longest run of consecutive elements of one
\* subgroup has length a - b when a > b, and b - a + 1 when a <= b (the
\* last alternated element is of groupB and adjoins groupB's remainder).
C5_Interleave ==
    (pc = "sliced" /\ Splits(people)) =>
        LET a == SplitOf(people)
            b == Len(people) - a
        IN /\ updatedPeople = Alternation(people)
           /\ LongestRun(people, updatedPeople) = IF a > b THEN a - b ELSE b - a + 1

\* a split slice with a remainder on each side of the comparison
C5_Witness ==
    /\ pc = "sliced"
    /\ Splits(people)
    /\ SplitOf(people) = 2
    /\ Len(people) = 6
    /\ updatedPeople # people

\* C6: laying out a returned layout again returns the same layout.
C6_Idempotent ==
    pc = "again" => again = updatedPeople

\* C7: the documented team Alice(Like), Bob(Like), Charlie(Avoid),
\* David(Have), Eve(Have) is laid out Charlie, Alice, David, Bob, Eve, and
\* without Bob it is laid out Charlie, Alice, David, Eve.
IdsOf(s) == [i \in 1..Len(s) |-> s[i].id]

C7_DocExamples ==
    pc = "done" =>
        /\ people = DocExampleFive => IdsOf(updatedPeople) = <<3, 1, 4, 2, 5>>
        /\ people = DocExampleFour => IdsOf(updatedPeople) = <<2, 1, 3, 4>>

C7_Witness ==
    /\ pc = "done"
    /\ people = DocExampleFive
    /\ Len(calls) = 1

\* C8: the classifier closes a run on every change of team id, teamed to
\* teamless and teamless to teamed included, so there is one TeamSummary per
\* run of the scanned sequence and its category counts that run only.
RunStarts(s) ==
    {i \in 1..Len(s) : i = 1 \/ TeamIdOrNull(s[i]) # TeamIdOrNull(s[i - 1])}
RunEnd(s, i) ==
    CHOOSE j \in i..Len(s) :
        /\ \A k \in i..j : TeamIdOrNull(s[k]) = TeamIdOrNull(s[i])
        /\ j = Len(s) \/ TeamIdOrNull(s[j + 1]) # TeamIdOrNull(s[i])
RunSummary(s, i) ==
    [teamId |-> TeamIdOrNull(s[i]),
     category |-> categoriseTeam(
        [d \in DogStatus |->
            Cardinality({k \in i..RunEnd(s, i) : s[k].dog = d})])]
SummaryCount(summaries, x) ==
    Cardinality({i \in 1..Len(summaries) : summaries[i] = x})
RunCount(s, x) == Cardinality({i \in RunStarts(s) : RunSummary(s, i) = x})

C8_SummaryPerRun ==
    (pc = "classified" /\ Len(sortedPeople) > 0) =>
        /\ Len(teamSummaries) = Cardinality(RunStarts(sortedPeople))
        /\ \A i \in RunStarts(sortedPeople) :
               SummaryCount(teamSummaries, RunSummary(sortedPeople, i))
                 = RunCount(sortedPeople, RunSummary(sortedPeople, i))

\* C9: after the first sort people of one team are contiguous, the teamless
\* people are one contiguous block, and each team group is ordered Avoid,
\* Like, Have.
C9_GroupedByTeam ==
    pc = "grouped" =>
        /\ \A i, j, k \in 1..Len(sortedPeople) :
               (i < j /\ j < k /\ sortedPeople[i].team = sortedPeople[k].team)
               => sortedPeople[j].team = sortedPeople[i].team
        /\ \A i, j \in 1..Len(sortedPeople) :
               (i < j /\ sortedPeople[i].team # NoTeam
                /\ sortedPeople[i].team = sortedPeople[j].team)
               => DogStatusOrder[sortedPeople[i].dog] <= DogStatusOrder[sortedPeople[j].dog]

\* C10: every reorderSubArray call of the interleaving scan has
\* 0 <= start <= end < length, and its slice holds only non-Avoid people of
\* one team (or only teamless non-Avoid people).
C10_CallsInBounds ==
    \A c \in Range(calls) :
        /\ 0 <= c.start /\ c.start <= c.end /\ c.end < Len(c.array)
        /\ \A k \in (c.start + 1)..(c.end + 1) :
               /\ c.array[k].dog # "Avoid"
               /\ c.array[k].team = c.array[c.start + 1].team

\* two calls, one on a team's run and one on the teamless run
C10_Witness ==
    /\ pc = "done"
    /\ \E c, d \in Range(calls) :
          /\ c.array[c.start + 1].team # NoTeam
          /\ d.array[d.start + 1].team = NoTeam
          /\ c.end > c.start
====
